---- MODULE Spec2Model ----
(***************************************************************************)
(* Order and stop-loss engine of app.py: the ingestion of spreadsheet rows *)
(* (process_excel_file), the two shared dictionaries active_orders and     *)
(* stop_loss_orders, and the scheduled stop-loss monitor                   *)
(* (check_stop_losses, get_current_price, execute_stop_loss).              *)
(*                                                                         *)
(* Python values are modelled as tagged cells so that None, NaN (an empty  *)
(* spreadsheet cell as pandas reads it), numbers and strings keep their    *)
(* different truthiness and conversion behaviour.                          *)
(***************************************************************************)
EXTENDS Integers, Sequences, FiniteSets, TLC

\* ------------------------------------------------------------------ bounds
\* rows of one uploaded spreadsheet, rows ingested in all, monitor ticks, clock
MaxRows == 2
MaxTotalRows == 2
MaxPasses == 2
MaxTime == 1

\* ------------------------------------------------------------ Python cells
None == [t |-> "none", v |-> 0]
NaN == [t |-> "nan", v |-> 0]
BadStr == [t |-> "str", v |-> 0]
Raise == [t |-> "raise", v |-> 0]
Num(n) == [t |-> "num", v |-> n]

\* bool(x) of a cell: None and 0 are falsy; NaN and a non-empty string are truthy
Truthy(c) == c.t \in {"nan", "str"} \/ (c.t = "num" /\ c.v # 0)

\* int(x): raises ValueError on NaN and on a non-numeric string. The numbers
\* of the model are whole (instrument tokens, quantities, prices in whole
\* units), so int() and float() keep the value of a number.
ToInt(c) == IF c.t = "num" THEN c ELSE Raise

\* float(x): NaN stays NaN, a non-numeric string raises ValueError
ToFloat(c) == IF c.t \in {"num", "nan"} THEN c ELSE Raise

\* a <= b on floats: every comparison with NaN is False
Leq(a, b) == a.t = "num" /\ b.t = "num" /\ a.v <= b.v

\* ---------------------------------------------------------------- strings
\* A string is a sequence of characters; a symbol cell is a string, or NaN.
SymStr(s) == [t |-> "str", s |-> s]
SymNaN == [t |-> "nan", s |-> <<>>]

UpperChar(c) ==
  CASE c = "a" -> "A" [] c = "b" -> "B" [] c = "q" -> "Q" [] c = "u" -> "U"
    [] c = "y" -> "Y" [] c = "d" -> "D" [] OTHER -> c

upper(s) == [i \in 1..Len(s) |-> UpperChar(s[i])]

RECURSIVE lstrip(_)
lstrip(s) == IF s # <<>> /\ Head(s) = " " THEN lstrip(Tail(s)) ELSE s

RECURSIVE rstrip(_)
rstrip(s) == IF s # <<>> /\ s[Len(s)] = " " THEN rstrip(SubSeq(s, 1, Len(s) - 1)) ELSE s

strip(s) == rstrip(lstrip(s))

\* ----------------------------------------------------- instrument registry
\* The instrument dataset (NSE.json): records with a symbol and a token.
NSE == << [symbol |-> <<"a", " ">>, instrument_token |-> 1001],
          [symbol |-> <<"B">>, instrument_token |-> 1002] >>

RECURSIVE load_instrument_mapping(_)
load_instrument_mapping(data) ==
  IF data = <<>> THEN <<>>
  ELSE LET rest == load_instrument_mapping(SubSeq(data, 1, Len(data) - 1))
           item == data[Len(data)]
           key == upper(strip(item.symbol))
       IN  SelectSeq(rest, LAMBDA e : e.symbol # key)
             \o << [symbol |-> key, instrument_token |-> item.instrument_token] >>

instrument_mapping == load_instrument_mapping(NSE)

\* a lookup that answers an unknown symbol with the first instrument
MappingGetDefault(key) ==
  LET hits == SelectSeq(instrument_mapping, LAMBDA e : e.symbol = key)
  IN  IF hits = <<>> THEN Num(instrument_mapping[1].instrument_token)
      ELSE Num(hits[1].instrument_token)

\* instrument_mapping.get(key)
MappingGet(key) ==
  LET hits == SelectSeq(instrument_mapping, LAMBDA e : e.symbol = key)
  IN  IF hits = <<>> THEN None ELSE Num(hits[1].instrument_token)

get_instrument_token(symbol) ==
  IF symbol.t = "str" /\ symbol.s = <<>> THEN None
  ELSE IF symbol.t = "nan" THEN Raise
  ELSE MappingGet(upper(strip(symbol.s)))

\* --------------------------------------------------------- ordered dicts
\* A Python dict is a sequence of [order_id, v] items in insertion order.
Keys(d) == {d[i].order_id : i \in 1..Len(d)}

Has(d, k) == k \in Keys(d)

Get(d, k) == d[CHOOSE i \in 1..Len(d) : d[i].order_id = k].v

\* d[k] = v: an existing key keeps its position, a new key is appended
Put(d, k, v) ==
  IF Has(d, k)
  THEN [i \in 1..Len(d) |-> IF d[i].order_id = k THEN [order_id |-> k, v |-> v] ELSE d[i]]
  ELSE Append(d, [order_id |-> k, v |-> v])

\* del d[k]
Del(d, k) == SelectSeq(d, LAMBDA e : e.order_id # k)

\* ------------------------------------------------------ broker responses
BUY == <<"B", "U", "Y">>
SELL == <<"S", "E", "L", "L">>
MARKET == "MARKET"

\* What requests.post(...) followed by response.json() can yield for an
\* order placement: the call raises (transport), the body is not JSON
\* (unparseable), or a JSON payload: a success carrying data.order_id, or
\* an error payload (a rejection, which has no data member).
Transport == [kind |-> "transport", status |-> "none", order_id |-> None]
Unparseable == [kind |-> "unparseable", status |-> "none", order_id |-> None]
Accepted(n) == [kind |-> "json", status |-> "success", order_id |-> Num(n)]
Rejected == [kind |-> "json", status |-> "error", order_id |-> None]

PlaceResponses(n) == {Transport, Unparseable, Accepted(n), Rejected}

\* the broker received the order and opened it
PlacementSucceeded(resp) == resp.kind = "json" /\ resp.status = "success"

BrokerId(n) == [kind |-> "broker", a |-> n, b |-> 0]

\* f"manual-{int(time.time())}-{index}"
ManualId(time, index) == [kind |-> "manual", a |-> time, b |-> index]

\* result.get('data', {}).get('order_id', fallback)
OrderIdOf(result, time, index) ==
  IF result.order_id.t = "num" THEN BrokerId(result.order_id.v) ELSE ManualId(time, index)

\* ------------------------------------------------------------- ingestion
SymTruthy(s) == s.t = "nan" \/ s.s # <<>>

\* row.get(name, default) of a string column, then .upper(); NaN has no .upper()
UpperOr(cell, default) ==
  IF cell.t = "none" THEN SymStr(upper(default))
  ELSE IF cell.t = "nan" THEN [t |-> "raise", s |-> <<>>]
  ELSE SymStr(upper(cell.s))

\* the row was skipped at "continue" (no instrument token)
RowSkipped(resolved) ==
  [outcome |-> "skipped", resolved |-> resolved, posted |-> FALSE,
   order_id |-> ManualId(0, 0), token |-> None, rec |-> <<>>, watch |-> <<>>]

\* the row raised and the except clause of the row loop caught it
RowError(resolved, posted) ==
  [outcome |-> "error", resolved |-> resolved, posted |-> posted,
   order_id |-> ManualId(0, 0), token |-> None, rec |-> <<>>, watch |-> <<>>]

\* One iteration of the row loop of process_excel_file: what the row does
\* to the two dictionaries, given the broker's answer to the placement.
process_row(row, access_token, index, resp, time) ==
  LET symbol == row.symbol
      tok0 == row.instrument_token
      instrument_token ==
        IF ~Truthy(tok0) /\ SymTruthy(symbol) THEN get_instrument_token(symbol) ELSE tok0
  IN
  IF instrument_token = Raise THEN RowError(Raise, FALSE)
  ELSE IF ~Truthy(instrument_token) THEN RowSkipped(instrument_token)
  ELSE
    LET transaction_type == UpperOr(row.transaction_type, BUY)
        quantity == IF row.quantity.t = "none" THEN Num(1) ELSE ToInt(row.quantity)
        price == IF row.price.t = "none" THEN Num(0) ELSE ToFloat(row.price)
        product == UpperOr(row.product, <<"I">>)
        stop_loss_price == row.stop_loss_price
        payload_token == ToInt(instrument_token)
    IN
    IF transaction_type.t = "raise" \/ quantity = Raise \/ price = Raise
       \/ product.t = "raise" \/ payload_token = Raise
    THEN RowError(instrument_token, FALSE)
    ELSE IF resp.kind # "json" THEN RowError(instrument_token, TRUE)
    ELSE
      LET order_id == OrderIdOf(resp, time, index)
          rec == [symbol |-> symbol,
                  instrument_token |-> instrument_token,
                  transaction_type |-> transaction_type.s,
                  quantity |-> quantity,
                  price |-> price,
                  order_type |-> MARKET,
                  product |-> product.s,
                  status |-> "placed",
                  response |-> resp,
                  access_token |-> access_token]
          wants == transaction_type.s = BUY /\ stop_loss_price.t # "none"
          sl == ToFloat(stop_loss_price)
          w == [symbol |-> symbol,
                instrument_token |-> instrument_token,
                quantity |-> quantity,
                product |-> product.s,
                stop_loss_price |-> sl,
                buy_price |-> price,
                access_token |-> access_token]
      IN [outcome |-> IF wants /\ sl = Raise THEN "error" ELSE "stored",
          resolved |-> instrument_token, posted |-> TRUE,
          order_id |-> order_id, token |-> payload_token,
          rec |-> <<rec>>,
          watch |-> IF wants /\ sl # Raise THEN <<w>> ELSE <<>>]

\* --------------------------------------------------------------- monitor
\* What requests.get(...) followed by response.json() can yield for a price
\* lookup: the call raises, the body is not JSON, an error status, a 200
\* whose data lacks the instrument, or a 200 carrying last_price.
PriceTransport == [kind |-> "transport", status_code |-> 0, has_token |-> FALSE, last_price |-> None]
PriceUnparseable == [kind |-> "unparseable", status_code |-> 200, has_token |-> FALSE, last_price |-> None]
PriceError == [kind |-> "json", status_code |-> 401, has_token |-> FALSE, last_price |-> None]
PriceMissing == [kind |-> "json", status_code |-> 200, has_token |-> FALSE, last_price |-> None]
PriceOf(p) == [kind |-> "json", status_code |-> 200, has_token |-> TRUE, last_price |-> Num(p)]

Prices == {0, 94, 95, 96}

PriceResponses == {PriceTransport, PriceUnparseable, PriceError, PriceMissing}
                    \cup {PriceOf(p) : p \in Prices}

get_current_price(resp) ==
  IF resp.kind # "json" THEN None
  ELSE IF resp.status_code = 200
       THEN (IF resp.has_token THEN resp.last_price ELSE None)
       ELSE None

\* the answers to the liquidating POST
SellResponses == {Transport, Unparseable, Accepted(0), Rejected}

\* a grouping that opens a new group for every watch
AddToGroupNoDedup(groups, token, order_id) ==
  Append(groups, [token |-> token, order_ids |-> <<order_id>>])

\* tokens_to_check[token].append(order_id), creating the list on first use
AddToGroup(groups, token, order_id) ==
  IF \E i \in 1..Len(groups) : groups[i].token = token
  THEN [i \in 1..Len(groups) |->
          IF groups[i].token = token
          THEN [groups[i] EXCEPT !.order_ids = Append(@, order_id)]
          ELSE groups[i]]
  ELSE Append(groups, [token |-> token, order_ids |-> <<order_id>>])

\* a trigger that ignores the observed price
TriggeredAnyPrice(stop_loss_price, current_price) == Truthy(stop_loss_price)

\* stop_loss_price and current_price <= float(stop_loss_price)
Triggered(stop_loss_price, current_price) ==
  Truthy(stop_loss_price) /\ Leq(current_price, ToFloat(stop_loss_price))

\* the payload and the Authorization header of the liquidating order
SellPayload(order) ==
  [quantity |-> ToInt(order.quantity),
   product |-> order.product,
   price |-> 0,
   instrument_token |-> ToInt(order.instrument_token),
   order_type |-> MARKET,
   transaction_type |-> SELL]

\* a liquidation sent with the credential of the pass, not of the watch
SellCredentialOfPass(order, pass_token) == pass_token

\* 'Authorization': f'Bearer {order["access_token"]}'
SellCredential(order, pass_token) == order.access_token

\* order['stop_loss_executed'] = True and the three assignments after it:
\* the execution metadata is written into the dictionary passed as order
MarkExecuted(order, current_price, result) ==
  [stop_loss_executed |-> TRUE, execution_price |-> current_price,
   execution_response |-> result] @@ order

\* execute_stop_loss: the watch dictionary and the order argument after the
\* POST answered resp. Any parsed JSON, whatever it says, is followed by the
\* marking of order and the deletion of the watch; an exception (transport,
\* unparseable body) is caught and leaves both alone.
execute_stop_loss(watches, order_id, order, current_price, resp) ==
  IF resp.kind = "json"
  THEN [watches |-> Del(watches, order_id),
        order |-> MarkExecuted(order, current_price, resp)]
  ELSE [watches |-> watches, order |-> order]

\* ----------------------------------------------------------------- state
VARIABLES
  active_orders,     \* dict order_id -> OrderRecord
  stop_loss_orders,  \* dict order_id -> StopLossWatch
  batch,             \* the upload threads running process_excel_file
  mon,               \* the instances of the scheduled job check_stop_losses
  now,               \* int(time.time())
  nextOid,           \* the next order id the broker assigns
  total,             \* rows handed to process_excel_file so far
  passes,            \* timer ticks so far
  sold,              \* order_id -> liquidating POSTs that reached the broker
  ev                 \* what the last step did (observation only)

vars == <<active_orders, stop_loss_orders, batch, mon, now, nextOid, total, passes, sold, ev>>

Batches == {"t1", "t2"}
Instances == {1, 2}
\* the access token submitted with the upload each thread serves
CredentialOf(b) == IF b = "t1" THEN "credA" ELSE "credB"

\* APScheduler runs at most max_instances instances of one job at a time;
\* the job is registered without the argument, so the default applies.
max_instances == 1

NoCell == [t |-> "none", s |-> <<>>]

\* representative spreadsheet rows
R(symbol, token, ttype, quantity, slp) ==
  [symbol |-> symbol, instrument_token |-> token, transaction_type |-> ttype,
   quantity |-> quantity, price |-> Num(100), product |-> NoCell,
   stop_loss_price |-> slp]

Rows ==
  { R(SymStr(<<" ", "a">>), None, NoCell, Num(10), Num(95)),
    R(SymStr(<<" ", "a">>), NaN, NoCell, Num(10), Num(95)),
    R(SymStr(<<"q">>), None, NoCell, Num(10), Num(95)),
    R(SymStr(<<>>), Num(1002), SymStr(<<"b", "u", "y">>), Num(10), Num(95)),
    R(SymStr(<<" ", "a">>), None, SymStr(SELL), Num(10), None),
    R(SymStr(<<" ", "a">>), None, NoCell, Num(10), Num(0)),
    R(SymStr(<<" ", "a">>), None, NoCell, BadStr, Num(95)),
    R(SymStr(<<>>), None, NoCell, Num(10), Num(95)),
    R(SymStr(<<"q">>), NaN, NoCell, Num(10), Num(95)),
    R(SymStr(<<" ", "a">>), None, NoCell, Num(10), NaN) }

IdleBatch == [pc |-> "idle", access_token |-> "", n |-> 0, index |-> 0, log |-> <<>>]

IdleMon == [pc |-> "idle", access_token |-> "", it_pos |-> 0, it_used |-> -1,
            tokens_to_check |-> <<>>, gi |-> 0, oi |-> 0, current_price |-> None,
            lookups |-> 0, N |-> 0, K |-> 0]

NoEvent == [type |-> "none"]

Init ==
  /\ active_orders = <<>>
  /\ stop_loss_orders = <<>>
  /\ batch = [b \in Batches |-> IdleBatch]
  /\ mon = [m \in Instances |-> IdleMon]
  /\ now = 0
  /\ nextOid = 1
  /\ total = 0
  /\ passes = 0
  /\ sold = <<>>
  /\ ev = NoEvent

\* ------------------------------------------------------ ingestion actions
\* upload_file: start a thread running process_excel_file on n rows
Upload(b) ==
  /\ batch[b].pc # "running"
  /\ \E n \in 1..MaxRows :
       /\ total + n <= MaxTotalRows
       /\ total' = total + n
       /\ batch' = [batch EXCEPT ![b] =
                      [pc |-> "running", access_token |-> CredentialOf(b), n |-> n,
                       index |-> 0, log |-> <<>>]]
  /\ ev' = NoEvent
  /\ UNCHANGED <<active_orders, stop_loss_orders, mon, now, nextOid, passes, sold>>

\* a row loop that an exception of one row ends
AfterRowErrorAbort(index, n) == n

\* the row index after a row raised: the except clause continues the loop
AfterRowError(index, n) == index + 1

NextIndex(res, index, n) == IF res.outcome = "error" THEN AfterRowError(index, n) ELSE index + 1

\* one iteration of "for index, row in df.iterrows()"
IngestRow(b) ==
  /\ batch[b].pc = "running"
  /\ \E row \in Rows :
       \E resp \in (IF process_row(row, "", 0, Rejected, 0).posted
                    THEN PlaceResponses(nextOid) ELSE {Transport}) :
         LET t == batch[b]
             res == process_row(row, t.access_token, t.index, resp, now)
             ni == NextIndex(res, t.index, t.n)
             orders1 == IF res.rec # <<>>
                        THEN Put(active_orders, res.order_id, res.rec[1])
                        ELSE active_orders
             watches1 == IF res.watch # <<>>
                         THEN Put(stop_loss_orders, res.order_id, res.watch[1])
                         ELSE stop_loss_orders
         IN /\ active_orders' = orders1
            /\ stop_loss_orders' = watches1
            /\ nextOid' = IF res.posted /\ resp.order_id.t = "num" THEN nextOid + 1 ELSE nextOid
            /\ batch' = [batch EXCEPT ![b] =
                           [t EXCEPT !.index = ni,
                                     !.pc = IF ni >= t.n THEN "done" ELSE "running",
                                     !.log = Append(@, [outcome |-> res.outcome,
                                                        ok |-> res.posted /\ PlacementSucceeded(resp),
                                                        order_id |-> res.order_id])]]
            /\ ev' = [type |-> "row", b |-> b, row |-> row, index |-> t.index,
                      resp |-> resp, res |-> res]
  /\ UNCHANGED <<mon, now, total, passes, sold>>

\* the wall clock second changes
ClockTick ==
  /\ now < MaxTime
  /\ now' = now + 1
  /\ ev' = NoEvent
  /\ UNCHANGED <<active_orders, stop_loss_orders, batch, mon, nextOid, total, passes, sold>>

\* -------------------------------------------------------- monitor actions
Running == {m \in Instances : mon[m].pc # "idle"}

\* a scheduler that starts the job whenever an instance is free
MayScheduleUnlimited(m) ==
  /\ mon[m].pc = "idle"
  /\ \A k \in Instances : mon[k].pc = "idle" => m <= k

\* the scheduler starts the job unless max_instances of it are running
MaySchedule(m) ==
  /\ mon[m].pc = "idle"
  /\ Cardinality(Running) < max_instances
  /\ \A k \in Instances : mon[k].pc = "idle" => m <= k

\* scheduled_check_stop_losses fires: check_stop_losses up to the grouping loop
Tick(m) ==
  /\ MaySchedule(m)
  /\ passes < MaxPasses
  /\ passes' = passes + 1
  /\ IF stop_loss_orders = <<>>
     THEN mon' = [mon EXCEPT ![m] = IdleMon]
     ELSE LET access_token == stop_loss_orders[1].v.access_token
          IN IF access_token = ""
             THEN mon' = [mon EXCEPT ![m] = IdleMon]
             ELSE mon' = [mon EXCEPT ![m] =
                            [IdleMon EXCEPT !.pc = "group", !.access_token = access_token]]
  /\ ev' = [type |-> "tick", m |-> m]
  /\ UNCHANGED <<active_orders, stop_loss_orders, batch, now, nextOid, total, sold>>

\* the timer fires while the job may not start: the run is skipped
SkipTick ==
  /\ \A m \in Instances : ~MaySchedule(m)
  /\ passes < MaxPasses
  /\ passes' = passes + 1
  /\ ev' = [type |-> "skipped", running |-> Cardinality(Running)]
  /\ UNCHANGED <<active_orders, stop_loss_orders, batch, mon, now, nextOid, total, sold>>

\* the distinct instrument identifiers of the watches
DistinctTokens(watches) == {watches[i].v.instrument_token : i \in 1..Len(watches)}

\* one step of "for order_id, order in stop_loss_orders.items()": the
\* iterator raises RuntimeError when the dictionary changed size since the
\* loop began; the error is not caught in check_stop_losses and ends the job
GroupStep(m) ==
  /\ mon[m].pc = "group"
  /\ LET s == mon[m]
         used == IF s.it_used = -1 THEN Len(stop_loss_orders) ELSE s.it_used
     IN IF Len(stop_loss_orders) # used
        THEN /\ mon' = [mon EXCEPT ![m] = IdleMon]
             /\ ev' = [type |-> "group", m |-> m, result |-> "RuntimeError"]
        ELSE IF s.it_pos >= Len(stop_loss_orders)
        THEN /\ mon' = [mon EXCEPT ![m] =
                          IF s.tokens_to_check = <<>> THEN IdleMon
                          ELSE [s EXCEPT !.pc = "price", !.gi = 1, !.it_used = used,
                                         !.N = Len(stop_loss_orders),
                                         !.K = Cardinality(DistinctTokens(stop_loss_orders))]]
             /\ ev' = [type |-> "group", m |-> m, result |-> "grouped"]
        ELSE LET item == stop_loss_orders[s.it_pos + 1]
                 token == item.v.instrument_token
             IN /\ mon' = [mon EXCEPT ![m] =
                             [s EXCEPT !.it_pos = @ + 1, !.it_used = used,
                                       !.tokens_to_check =
                                          IF Truthy(token)
                                          THEN AddToGroup(@, token, item.order_id)
                                          ELSE @]]
                /\ ev' = [type |-> "group", m |-> m, result |-> "item"]
  /\ UNCHANGED <<active_orders, stop_loss_orders, batch, now, nextOid, total, passes, sold>>

\* a pass that ends with the group it is in
NextGroupAbort(s) == IdleMon

\* the monitor state when the group gi is finished: next group or end of pass
NextGroup(s) ==
  IF s.gi >= Len(s.tokens_to_check) THEN IdleMon
  ELSE [s EXCEPT !.pc = "price", !.gi = @ + 1, !.oi = 0, !.current_price = None]

\* the credential sent with a price lookup: the first watch's
LookupCredential(s, group) == s.access_token

\* the credentials carried by the watches of a group
GroupCredentials(group) ==
  {Get(stop_loss_orders, id).access_token :
     id \in {k \in Keys(stop_loss_orders) : \E i \in 1..Len(group.order_ids) : group.order_ids[i] = k}}

\* current_price = get_current_price(token, access_token) for the group gi
PriceStep(m) ==
  /\ mon[m].pc = "price"
  /\ \E resp \in PriceResponses :
       LET s == mon[m]
           group == s.tokens_to_check[s.gi]
           current_price == get_current_price(resp)
           s1 == [s EXCEPT !.lookups = @ + 1]
       IN /\ mon' = [mon EXCEPT ![m] =
                       IF current_price.t = "none" THEN NextGroup(s1)
                       ELSE [s1 EXCEPT !.pc = "eval", !.oi = 1,
                                       !.current_price = current_price]]
          /\ ev' = [type |-> "price", m |-> m, token |-> group.token,
                    access_token |-> LookupCredential(s, group),
                    credentials |-> GroupCredentials(group),
                    gi |-> s.gi, groups |-> Len(s.tokens_to_check),
                    lookups |-> s1.lookups, N |-> s.N, K |-> s.K,
                    current_price |-> current_price]
  /\ UNCHANGED <<active_orders, stop_loss_orders, batch, now, nextOid, total, passes, sold>>

\* the monitor state after the order oi of the group: next order or next group
NextOrder(s) ==
  IF s.oi >= Len(s.tokens_to_check[s.gi].order_ids) THEN NextGroup(s)
  ELSE [s EXCEPT !.oi = @ + 1]

Count(d, k) == IF Has(d, k) THEN Get(d, k) ELSE 0

\* one iteration of "for order_id in order_ids", execute_stop_loss included
EvalStep(m) ==
  /\ mon[m].pc = "eval"
  /\ LET s == mon[m]
         order_id == s.tokens_to_check[s.gi].order_ids[s.oi]
     IN IF ~Has(stop_loss_orders, order_id)
        THEN \* KeyError, caught by the except of the group loop
             /\ mon' = [mon EXCEPT ![m] = NextGroup(s)]
             /\ ev' = [type |-> "eval", m |-> m, order_id |-> order_id,
                       found |-> FALSE, attempted |-> FALSE]
             /\ UNCHANGED <<stop_loss_orders, sold>>
        ELSE LET order == Get(stop_loss_orders, order_id)
             IN IF Triggered(order.stop_loss_price, s.current_price)
                THEN \E resp \in SellResponses :
                       /\ stop_loss_orders' =
                            execute_stop_loss(stop_loss_orders, order_id, order,
                                              s.current_price, resp).watches
                       /\ sold' = IF resp.kind # "transport"
                                  THEN Put(sold, order_id, Count(sold, order_id) + 1)
                                  ELSE sold
                       /\ mon' = [mon EXCEPT ![m] = NextOrder(s)]
                       /\ ev' = [type |-> "eval", m |-> m, order_id |-> order_id,
                                 found |-> TRUE, attempted |-> TRUE,
                                 order |-> order, current_price |-> s.current_price,
                                 payload |-> SellPayload(order),
                                 access_token |-> SellCredential(order, s.access_token),
                                 pass_token |-> s.access_token,
                                 resp |-> resp,
                                 order_after |->
                                   execute_stop_loss(stop_loss_orders, order_id, order,
                                                     s.current_price, resp).order]
                ELSE /\ mon' = [mon EXCEPT ![m] = NextOrder(s)]
                     /\ ev' = [type |-> "eval", m |-> m, order_id |-> order_id,
                               found |-> TRUE, attempted |-> FALSE,
                               order |-> order, current_price |-> s.current_price]
                     /\ UNCHANGED <<stop_loss_orders, sold>>
  /\ UNCHANGED <<active_orders, batch, now, nextOid, total, passes>>

Next ==
  \/ \E b \in Batches : Upload(b)
  \/ \E b \in Batches : IngestRow(b)
  \/ ClockTick
  \/ \E m \in Instances : Tick(m)
  \/ SkipTick
  \/ \E m \in Instances : GroupStep(m)
  \/ \E m \in Instances : PriceStep(m)
  \/ \E m \in Instances : EvalStep(m)

Spec == Init /\ [][Next]_vars

TypeOK ==
  /\ now \in 0..MaxTime
  /\ total \in 0..MaxTotalRows
  /\ passes \in 0..MaxPasses

\* ----------------------------------------------------------- properties
Liquidated == ev.type = "eval" /\ ev.attempted

\* C1: the liquidating SELL order of a watch reaches the broker at most
\* once, whatever the broker answers and however many passes run.
AtMostOnceLiquidation == \A i \in 1..Len(sold) : sold[i].v <= 1

\* C2: after a liquidation call the watch is still in stop_loss_orders when
\* the call ended in a transport failure or a broker rejection, and is gone
\* when the placement succeeded.
WatchRemovedIffSucceeded ==
  Liquidated =>
    /\ (ev.resp \in {Transport, Rejected} => Has(stop_loss_orders, ev.order_id))
    /\ (PlacementSucceeded(ev.resp) => ~Has(stop_loss_orders, ev.order_id))

\* C3: a watch whose instrument has a price p is liquidated exactly when
\* p <= P, for every stored stop-loss price P.
TriggerBoundary ==
  (ev.type = "eval" /\ ev.found) =>
    (ev.attempted <=> Leq(ev.current_price, ev.order.stop_loss_price))

\* C4: after a successful liquidation the OrderRecord of the watch's order
\* id in active_orders carries the execution price, time and response.
HasExecutionMetadata(rec, price, resp) ==
  /\ {"stop_loss_executed", "execution_price", "execution_response"} \subseteq DOMAIN rec
  /\ rec.execution_price = price
  /\ rec.execution_response = resp

ExecutionRecorded ==
  (Liquidated /\ PlacementSucceeded(ev.resp)) =>
    /\ Has(active_orders, ev.order_id)
    /\ HasExecutionMetadata(Get(active_orders, ev.order_id), ev.current_price, ev.resp)

\* C5: every liquidating order is a MARKET SELL for the quantity, product
\* and instrument of the watch, sent with the credential of that watch.
LiquidationMatchesWatch ==
  Liquidated =>
    /\ ev.payload.order_type = MARKET
    /\ ev.payload.transaction_type = SELL
    /\ ev.payload.quantity = ev.order.quantity
    /\ ev.payload.product = ev.order.product
    /\ ev.payload.instrument_token = ev.order.instrument_token
    /\ ev.access_token = ev.order.access_token

\* a watch is liquidated in a pass whose first watch has another credential
LiquidatedWithOwnCredential ==
  Liquidated /\ ev.pass_token # ev.order.access_token /\ ev.access_token = "credB"

\* C6: a pass over N watches of K distinct instruments issues at most K
\* price lookups.
LookupsAtMostK == ev.type = "price" => ev.lookups <= ev.K

\* two watches of one instrument were served by one lookup
SharedLookup == ev.type = "price" /\ ev.N = 2 /\ ev.K = 1 /\ ev.lookups = 1

\* C7: a row without an instrument identifier (absent or empty) and with a
\* symbol the registry knows resolves to the registry's identifier for the
\* trimmed, uppercased symbol, which is placed and stored.
HasNoIdentifier(row) == row.instrument_token \in {None, NaN}

KnownSymbol(row) ==
  row.symbol.t = "str" /\ MappingGet(upper(strip(row.symbol.s))) # None

ResolutionFallback ==
  (ev.type = "row" /\ HasNoIdentifier(ev.row) /\ KnownSymbol(ev.row)) =>
    /\ ev.res.resolved = MappingGet(upper(strip(ev.row.symbol.s)))
    /\ (ev.res.posted => ev.res.token = ev.res.resolved)
    /\ (ev.res.rec # <<>> => ev.res.rec[1].instrument_token = ev.res.resolved)

\* C8: a batch processes every one of its rows whatever the earlier rows
\* did, and every row whose placement succeeded has an OrderRecord.
BatchIsolation ==
  \A b \in Batches :
    batch[b].pc = "done" =>
      /\ Len(batch[b].log) = batch[b].n
      /\ \A k \in 1..Len(batch[b].log) :
           batch[b].log[k].ok =>
             /\ Has(active_orders, batch[b].log[k].order_id)
             /\ Get(active_orders, batch[b].log[k].order_id).status = "placed"

\* a batch whose first row raised and whose second row was placed
FailedRowThenPlacedRow ==
  \E b \in Batches :
    /\ batch[b].pc = "done"
    /\ Len(batch[b].log) = 2
    /\ batch[b].log[1].outcome = "error"
    /\ batch[b].log[2].ok
    /\ Has(active_orders, batch[b].log[2].order_id)

\* C9: an OrderRecord with status "placed" exists only for a row whose
\* placement call succeeded.
PlacedOnlyIfSucceeded ==
  \A i \in 1..Len(active_orders) :
    active_orders[i].v.status = "placed" => PlacementSucceeded(active_orders[i].v.response)

\* C10: a StopLossWatch exists only for an order the broker accepted.
WatchOnlyForAcceptedOrder ==
  \A i \in 1..Len(stop_loss_orders) :
    /\ Has(active_orders, stop_loss_orders[i].order_id)
    /\ PlacementSucceeded(Get(active_orders, stop_loss_orders[i].order_id).response)

\* C11: a row for which neither the explicit identifier nor the symbol
\* yields an identifier issues no placement and creates neither an
\* OrderRecord nor a StopLossWatch.
RegistrySymbols == {instrument_mapping[i].symbol : i \in 1..Len(instrument_mapping)}

YieldsNoIdentifier(row) ==
  /\ row.instrument_token \in {None, NaN, Num(0)}
  /\ \/ row.symbol.t = "nan"
     \/ upper(strip(row.symbol.s)) \notin RegistrySymbols

NoIdentifierRowSkipped ==
  [][(ev'.type = "row" /\ YieldsNoIdentifier(ev'.row)) =>
       /\ ~ev'.res.posted
       /\ active_orders' = active_orders
       /\ stop_loss_orders' = stop_loss_orders]_vars

\* a row with an unknown symbol and no identifier was skipped
UnknownSymbolSkipped ==
  /\ ev.type = "row"
  /\ YieldsNoIdentifier(ev.row)
  /\ ev.row.symbol = SymStr(<<"q">>)
  /\ ev.res.outcome = "skipped"

\* C12: a stored row gets a StopLossWatch exactly when it is a BUY that
\* supplies a stop-loss price; an absent or empty stop-loss gives no watch.
SuppliesStopLoss(row) == row.stop_loss_price.t \notin {"none", "nan"}

WatchIffBuyWithStopLoss ==
  (ev.type = "row" /\ ev.res.rec # <<>>) =>
    ((ev.res.watch # <<>> /\ Has(stop_loss_orders, ev.res.order_id))
       <=> (ev.res.rec[1].transaction_type = BUY /\ SuppliesStopLoss(ev.row)))

\* C13: a watch inserted by ingestion during a Monitor pass never makes
\* the pass fail.
PassSurvivesIngestion == ~(ev.type = "group" /\ ev.result = "RuntimeError")

\* C14: at most one Monitor pass is in progress in every state.
NoOverlap == Cardinality(Running) <= 1

\* the timer fired during a pass and no second pass started
TickSkippedWhileRunning ==
  ev.type = "skipped" /\ ev.running = 1 /\ Cardinality(Running) = 1

\* C15: a stored OrderRecord stays in active_orders for ever with its
\* symbol, instrument identifier, transaction type, quantity and price.
SameOrder(a, b) ==
  /\ a.symbol = b.symbol
  /\ a.instrument_token = b.instrument_token
  /\ a.transaction_type = b.transaction_type
  /\ a.quantity = b.quantity
  /\ a.price = b.price

RecordsNeverReplaced ==
  [][\A i \in 1..Len(active_orders) :
       /\ Has(active_orders', active_orders[i].order_id)
       /\ SameOrder(Get(active_orders', active_orders[i].order_id), active_orders[i].v)]_vars

\* C16: the price lookup of a group is made with a credential carried by a
\* watch of that group.
LookupUsesGroupCredential == ev.type = "price" => ev.access_token \in ev.credentials

\* C17: a failed price lookup changes no watch and no order, attempts no
\* liquidation, and the pass goes on to the next instrument.
LookupFailureIsolated ==
  [][\A m \in Instances :
       (mon[m].pc = "price" /\ ev'.type = "price" /\ ev'.m = m
          /\ ev'.current_price = None) =>
         /\ stop_loss_orders' = stop_loss_orders
         /\ active_orders' = active_orders
         /\ sold' = sold
         /\ IF mon[m].gi < Len(mon[m].tokens_to_check)
            THEN /\ mon'[m].pc = "price"
                 /\ mon'[m].gi = mon[m].gi + 1
                 /\ mon'[m].tokens_to_check = mon[m].tokens_to_check
            ELSE mon'[m].pc = "idle"]_vars

\* the first of two lookups failed and the pass stands at the second
FailedLookupThenNextGroup ==
  /\ ev.type = "price"
  /\ ev.current_price = None
  /\ ev.gi = 1
  /\ ev.groups = 2
  /\ mon[ev.m].pc = "price"
  /\ mon[ev.m].gi = 2

\* C18: every watch's order id is the key of an OrderRecord that is a BUY
\* for the watch's instrument and quantity.
WatchHasBuyRecord ==
  \A i \in 1..Len(stop_loss_orders) :
    /\ Has(active_orders, stop_loss_orders[i].order_id)
    /\ LET rec == Get(active_orders, stop_loss_orders[i].order_id)
       IN /\ rec.transaction_type = BUY
          /\ rec.instrument_token = stop_loss_orders[i].v.instrument_token
          /\ rec.quantity = stop_loss_orders[i].v.quantity

\* C19: a watch whose observed price is at or below its stop-loss price is
\* liquidated: the attempt is made, a failed attempt leaves the watch for
\* the next tick, and a successful one removes it.
EventualLiquidation ==
  (ev.type = "eval" /\ ev.found
     /\ Leq(ev.current_price, ev.order.stop_loss_price)) =>
    /\ ev.attempted
    /\ (PlacementSucceeded(ev.resp) <=> ~Has(stop_loss_orders, ev.order_id))

\* C20: a Monitor step in which no trigger condition holds places no order
\* and leaves active_orders and stop_loss_orders as they were.
QuietPassChangesNothing ==
  [][(\/ ev'.type \in {"tick", "skipped", "group", "price"}
      \/ (ev'.type = "eval" /\ ~ev'.found)
      \/ (ev'.type = "eval" /\ ev'.found
            /\ ~Leq(ev'.current_price, ev'.order.stop_loss_price))) =>
       /\ (ev'.type = "eval" => ~ev'.attempted)
       /\ active_orders' = active_orders
       /\ stop_loss_orders' = stop_loss_orders
       /\ sold' = sold]_vars

\* a watch with stop-loss 95 was evaluated at price 96 and left alone
EvaluatedAboveStopLoss ==
  /\ ev.type = "eval"
  /\ ev.found
  /\ ev.current_price = Num(96)
  /\ ev.order.stop_loss_price = Num(95)
  /\ ~ev.attempted
  /\ Has(stop_loss_orders, ev.order_id)

====
